---------------------------- MODULE Spec2Model ----------------------------
(***************************************************************************)
(* Model of the Mumbai flood-prediction / evacuation-route backend         *)
(* (server.py, api/index.py).                                              *)
(*                                                                         *)
(* Python strings are modelled as sequences of one-character strings, so   *)
(* that lower-casing, substring containment, replace() and number          *)
(* formatting are computed the way the code computes them.  Distances are  *)
(* kept in tenths of a kilometre (123 is 12.3 km) and llload's eta_min in  *)
(* hundredths of a minute.                                                 *)
(***************************************************************************)
EXTENDS Integers, Sequences, FiniteSets, TLC

VARIABLES
    entry,            \* how the process was started: "server.py" or "api/index.py"
    ENABLE_LLLOAD,    \* server.py:17, the environment toggle
    LLLOAD_AVAILABLE, \* server.py:18, set by the import at module load
    llload_import,    \* what  from llload import ...  did: "pending" before it runs
    phase,            \* "boot", "serving", "fallback_app" or "crashed"
    fs,               \* the working directory: temp file name -> content
    req               \* per worker thread: the request being handled

vars == <<entry, ENABLE_LLLOAD, LLLOAD_AVAILABLE, llload_import, phase, fs, req>>

--------------------------------------------------------------------------
\* Bounds of the model.

\* Free-text queries include every substring of a lower-cased catalog name
\* of at most this many characters.
MaxQueryLen == 2

\* route_count values 1..MaxRouteCount are requested (besides leaving it out).
MaxRouteCount == 4

\* The dynamic provider returns at most this many routes.
MaxDynRoutes == 2

\* Worker threads handling requests concurrently in SpecConc.
NumThreads == 2

--------------------------------------------------------------------------
\* Python values.

\* Python's None.  A one-element tuple that no string equals.
None == <<"<None>">>

\* Python truthiness of a str or None.
truthy(x) == x /= None /\ x /= <<>>

\* Python truthiness of a list.
truthy_list(l) == Len(l) > 0

UpperChars == <<"A","B","C","D","E","F","G","H","I","J","K","L","M","N","O","P","Q","R","S","T","U","V","W","X","Y","Z">>
LowerChars == <<"a","b","c","d","e","f","g","h","i","j","k","l","m","n","o","p","q","r","s","t","u","v","w","x","y","z">>
DigitChars == <<"0","1","2","3","4","5","6","7","8","9">>

\* str.lower() of one character
lower_char(c) ==
    IF \E i \in 1..Len(UpperChars) : UpperChars[i] = c
    THEN LowerChars[CHOOSE i \in 1..Len(UpperChars) : UpperChars[i] = c]
    ELSE c

\* str.lower()
RECURSIVE lower(_)
lower(s) == IF s = <<>> THEN <<>> ELSE <<lower_char(Head(s))>> \o lower(Tail(s))

\* Python's  needle in hay  for strings (the empty string is in every string)
str_in(needle, hay) ==
    \E i \in 0..(Len(hay) - Len(needle)) :
        \A j \in 1..Len(needle) : hay[i + j] = needle[j]

\* str.replace(' ', '_')
RECURSIVE replace_space(_)
replace_space(s) ==
    IF s = <<>> THEN <<>>
    ELSE <<IF Head(s) = " " THEN "_" ELSE Head(s)>> \o replace_space(Tail(s))

\* str(n) for a natural number
RECURSIVE nat_str(_)
nat_str(n) ==
    IF n < 10 THEN <<DigitChars[n + 1]>>
    ELSE nat_str(n \div 10) \o <<DigitChars[(n % 10) + 1]>>

\* f"{eta_min:.1f} min", eta_min given in hundredths of a minute: rounded to
\* one decimal (the inputs of the model avoid exact ties).
format_eta(eta_min) ==
    LET tenths == (eta_min + 5) \div 10
    IN  nat_str(tenths \div 10) \o <<".", DigitChars[(tenths % 10) + 1]>>
            \o <<" ","m","i","n">>

\* dict.get(key, default)
dict_get(d, key, default) == IF key \in DOMAIN d THEN d[key] ELSE default

\* A faulty list[:k] that always returns k items, repeating the last one
slice_prefix_padded(l, k) ==
    [i \in 1..k |-> IF i <= Len(l) THEN l[i] ELSE l[Len(l)]]

\* list[:k] for k >= 0
slice_prefix(l, k) == SubSeq(l, 1, IF k < Len(l) THEN k ELSE Len(l))

--------------------------------------------------------------------------
\* The region catalog and the static tables.

AndheriEast == <<"A","n","d","h","e","r","i"," ","E","a","s","t">>
AndheriWest == <<"A","n","d","h","e","r","i"," ","W","e","s","t">>
BandraEast == <<"B","a","n","d","r","a"," ","E","a","s","t">>
BandraWest == <<"B","a","n","d","r","a"," ","W","e","s","t">>
Colaba == <<"C","o","l","a","b","a">>
Fort == <<"F","o","r","t">>
Dadar == <<"D","a","d","a","r">>
Worli == <<"W","o","r","l","i">>
Powai == <<"P","o","w","a","i">>
Borivali == <<"B","o","r","i","v","a","l","i">>
Malad == <<"M","a","l","a","d">>
Goregaon == <<"G","o","r","e","g","a","o","n">>
Versova == <<"V","e","r","s","o","v","a">>
Juhu == <<"J","u","h","u">>
Santacruz == <<"S","a","n","t","a","c","r","u","z">>
Khar == <<"K","h","a","r">>
Mahim == <<"M","a","h","i","m">>
Sion == <<"S","i","o","n">>
Kurla == <<"K","u","r","l","a">>
Ghatkopar == <<"G","h","a","t","k","o","p","a","r">>
Thane == <<"T","h","a","n","e">>
Mulund == <<"M","u","l","u","n","d">>

MUMBAI_REGIONS ==
    << AndheriEast, AndheriWest, BandraEast, BandraWest,
       Colaba, Fort, Dadar, Worli, Powai, Borivali,
       Malad, Goregaon, Versova, Juhu, Santacruz, Khar,
       Mahim, Sion, Kurla, Ghatkopar, Thane, Mulund >>

FLOOD_RISK_DATA ==
    (AndheriEast :> "high") @@ (AndheriWest :> "moderate") @@ (BandraEast :> "low") @@
    (BandraWest :> "low") @@ (Colaba :> "low") @@ (Fort :> "low") @@ (Dadar :> "moderate") @@
    (Worli :> "low") @@ (Powai :> "high") @@ (Borivali :> "low") @@ (Malad :> "moderate") @@
    (Goregaon :> "moderate") @@ (Versova :> "moderate") @@ (Juhu :> "moderate") @@
    (Santacruz :> "moderate") @@ (Khar :> "low") @@ (Mahim :> "moderate") @@
    (Sion :> "high") @@ (Kurla :> "high") @@ (Ghatkopar :> "moderate") @@
    (Thane :> "moderate") @@ (Mulund :> "low")

\* A route of the API: destination, distance, eta string, risk level.
Route(dest, km10, eta, risk) ==
    [destination |-> dest, distance_km |-> km10, eta |-> eta, risk_level |-> risk]

EVACUATION_ROUTES ==
    (AndheriEast :> <<
        Route(Borivali, 123, <<"2","9",".","5"," ","m","i","n">>, "low"),
        Route(Colaba,   187, <<"4","4",".","9"," ","m","i","n">>, "low"),
        Route(Fort,     162, <<"3","8",".","9"," ","m","i","n">>, "low") >>) @@
    (Thane :> <<
        Route(Mulund,    85, <<"2","0",".","4"," ","m","i","n">>, "low"),
        Route(Borivali, 152, <<"3","6",".","5"," ","m","i","n">>, "low"),
        Route(Khar,     221, <<"5","3",".","0"," ","m","i","n">>, "low") >>)

\* The default of EVACUATION_ROUTES.get in get_routes
ROUTES_DEFAULT ==
    << Route(<<"S","a","f","e"," ","Z","o","n","e"," ","1">>, 105,
             <<"2","5",".","2"," ","m","i","n">>, "low"),
       Route(<<"S","a","f","e"," ","Z","o","n","e"," ","2">>, 152,
             <<"3","6",".","5"," ","m","i","n">>, "low"),
       Route(<<"S","a","f","e"," ","Z","o","n","e"," ","3">>, 87,
             <<"2","0",".","9"," ","m","i","n">>, "low") >>

\* The default of EVACUATION_ROUTES.get in map_page
MAP_ROUTES_DEFAULT ==
    << Route(<<"E","m","e","r","g","e","n","c","y"," ","S","h","e","l","t","e","r"," ","1">>,
             85, <<"2","0"," ","m","i","n">>, "low"),
       Route(<<"E","m","e","r","g","e","n","c","y"," ","S","h","e","l","t","e","r"," ","2">>,
             123, <<"2","8"," ","m","i","n">>, "low"),
       Route(<<"E","m","e","r","g","e","n","c","y"," ","S","h","e","l","t","e","r"," ","3">>,
             157, <<"3","5"," ","m","i","n">>, "low") >>

\* route_count's default in get_routes
DEFAULT_ROUTE_COUNT == 3

\* The number of catalog entries a 404 carries as a hint
HINT_COUNT == 10

\* match_score of the static path
STATIC_MATCH_SCORE == 85

--------------------------------------------------------------------------
\* Region matching: the loop of predict_flood, get_routes and map_page.

\* One region passes the test of the loop body.
region_fits(query, r) ==
    LET q == lower(query)
        n == lower(r)
    IN  str_in(q, n) \/ str_in(n, q)

\* The loop from catalog position i on, leaving at the first match (break).
RECURSIVE match_from(_, _)
match_from(query, i) ==
    IF i > Len(MUMBAI_REGIONS) THEN None
    ELSE IF region_fits(query, MUMBAI_REGIONS[i]) THEN MUMBAI_REGIONS[i]
    ELSE match_from(query, i + 1)

\* The same loop without its break: the last match wins.
RECURSIVE match_no_break(_, _, _)
match_no_break(query, i, found) ==
    IF i > Len(MUMBAI_REGIONS) THEN found
    ELSE match_no_break(query, i + 1,
            IF region_fits(query, MUMBAI_REGIONS[i]) THEN MUMBAI_REGIONS[i] ELSE found)
match_region_last(query) == match_no_break(query, 1, None)

match_region(query) == match_from(query, 1)

\* A faulty hint that carries the whole catalog
available_regions_all == MUMBAI_REGIONS

\* MUMBAI_REGIONS[:10]
available_regions == slice_prefix(MUMBAI_REGIONS, HINT_COUNT)

--------------------------------------------------------------------------
\* Requests and responses.

\* The JSON body of a POST, as request.get_json() meets it: a JSON object
\* (the keys it has, and their values), the JSON value null, for which
\* get_json returns None, or a body get_json cannot take (no JSON content
\* type, no body, malformed), for which it raises.
JsonObject(keys, ward_name, region, route_count) ==
    [kind |-> "object", keys |-> keys, ward_name |-> ward_name,
     region |-> region, route_count |-> route_count]
JsonNull == [kind |-> "null", keys |-> {}, ward_name |-> <<>>, region |-> <<>>, route_count |-> 0]
JsonUnparsable == [kind |-> "unparsable", keys |-> {}, ward_name |-> <<>>, region |-> <<>>, route_count |-> 0]

\* data.get(key, default)
data_get(data, key, default) == IF key \in data.keys THEN data[key] ELSE default

\* jsonify(body), status
json_response(status, body) == [status |-> status, type |-> "application/json", body |-> body]

\* html_content, 200, {'Content-Type': 'text/html'}
html_response(body) == [status |-> 200, type |-> "text/html", body |-> body]

\* The outer  except Exception  of predict_flood, before ward_name is bound
predict_flood_exception(e) == json_response(500, [error |-> e, ward |-> <<"u","n","k","n","o","w","n">>])

\* The outer  except Exception  of get_routes, before region is bound
get_routes_exception(e) ==
    json_response(500, [error |-> e, matched_region |-> <<"u","n","k","n","o","w","n">>])

\* The outer  except Exception  of map_page
map_page_exception(e) == json_response(500, [error |-> e])

\* What the external call get_k_nearest_low_risk_routes(region, G, flood_df, k)
\* did: it raised, or it returned (matched_region, match_score, routes_data).
DynRaise == [kind |-> "raise", matched_region |-> None, match_score |-> 0, routes_data |-> <<>>]
DynReturn(m, score, routes) ==
    [kind |-> "return", matched_region |-> m, match_score |-> score, routes_data |-> routes]
\* No call was made (LLLOAD_AVAILABLE is False)
DynNotCalled == [kind |-> "not_called", matched_region |-> None, match_score |-> 0, routes_data |-> <<>>]

\* if matched_region and routes_data
dynamic_usable(dyn) ==
    dyn.kind = "return" /\ truthy(dyn.matched_region) /\ truthy_list(dyn.routes_data)

\* The conversion of llload's routes to the API's format
api_routes(routes_data) ==
    [i \in 1..Len(routes_data) |->
        Route(routes_data[i].dest_region, routes_data[i].distance_km,
              format_eta(routes_data[i].eta_min), "low")]

--------------------------------------------------------------------------
\* POST /predict_flood

predict_flood(body) ==
    IF body.kind = "unparsable" THEN predict_flood_exception("get_json raised")
    ELSE IF body.kind = "null" THEN predict_flood_exception("AttributeError")
    ELSE
    LET ward_name == data_get(body, "ward_name", <<>>)
        matched_region == match_region(ward_name)
        risk_level == dict_get(FLOOD_RISK_DATA, matched_region, "moderate")
    IN  IF ~truthy(ward_name)
        THEN json_response(400, [error |-> "ward_name is required"])
        ELSE IF ~truthy(matched_region)
        THEN json_response(404, [error |-> <<"Ward", ward_name, "not found">>,
                                 ward |-> ward_name,
                                 available_regions |-> available_regions])
        ELSE json_response(200, [ward |-> matched_region,
                                 risk_level |-> risk_level,
                                 confidence |-> 87,
                                 message |-> <<"Flood risk level for", matched_region, "is", risk_level>>])

--------------------------------------------------------------------------
\* POST /routes

\* The static path of get_routes: the matcher, the table, the truncation.
routes_static(region, route_count) ==
    LET matched_region == match_region(region)
        routes == slice_prefix(dict_get(EVACUATION_ROUTES, matched_region, ROUTES_DEFAULT),
                               route_count)
    IN  IF ~truthy(matched_region)
        THEN json_response(404, [error |-> <<"Region", region, "not found">>,
                                 matched_region |-> None,
                                 available_regions |-> available_regions])
        ELSE json_response(200, [success |-> TRUE,
                                 matched_region |-> matched_region,
                                 match_score |-> STATIC_MATCH_SCORE,
                                 routes |-> routes,
                                 route_count |-> Len(routes),
                                 message |-> <<"Found", Len(routes), "evacuation routes from",
                                               matched_region, "using static data">>,
                                 data_source |-> "Static Data - Fallback"])

\* The dynamic answer of get_routes
routes_dynamic(dyn) ==
    LET routes == api_routes(dyn.routes_data)
    IN  json_response(200, [success |-> TRUE,
                            matched_region |-> dyn.matched_region,
                            match_score |-> dyn.match_score,
                            routes |-> routes,
                            route_count |-> Len(routes),
                            message |-> <<"Found", Len(routes), "evacuation routes from",
                                          dyn.matched_region, "using dynamic routing">>,
                            data_source |-> "llload.py - Dynamic Routes"])

\* A faulty handler without the inner try: the provider's exception reaches
\* the outer  except Exception .
routes_provider_error_propagates(region, route_count) ==
    json_response(500, [error |-> "provider error", matched_region |-> region])

\* The inner  except Exception  of get_routes: print, then go on to the static path.
routes_on_provider_error(region, route_count) == routes_static(region, route_count)

\* A handler that answers an unusable provider result itself, with a 404 of
\* its own, where the code goes on to the static path.
routes_no_routes_found(region, route_count) ==
    json_response(404, [error |-> "no routes found", matched_region |-> region])

\* The provider returned, and  matched_region and routes_data  is false (no
\* region, or no routes): nothing is returned and control goes on to the
\* static path.
routes_on_unusable_result(region, route_count) == routes_static(region, route_count)

get_routes(body, available, dyn) ==
    IF body.kind = "unparsable" THEN get_routes_exception("get_json raised")
    ELSE IF body.kind = "null" THEN get_routes_exception("AttributeError")
    ELSE
    LET region == data_get(body, "region", <<>>)
        route_count == data_get(body, "route_count", DEFAULT_ROUTE_COUNT)
    IN  IF ~truthy(region)
        THEN json_response(400, [error |-> "region is required"])
        ELSE IF ~available THEN routes_static(region, route_count)
        ELSE IF dyn.kind = "raise" THEN routes_on_provider_error(region, route_count)
        ELSE IF dynamic_usable(dyn) THEN routes_dynamic(dyn)
        ELSE routes_on_unusable_result(region, route_count)

--------------------------------------------------------------------------
\* GET /map

\* The static HTML document of map_page: the data-source banner, the title
\* region, the risk badge and one block per route.
map_static(region) ==
    LET matched_region == match_region(region)
        routes == dict_get(EVACUATION_ROUTES, matched_region, MAP_ROUTES_DEFAULT)
    IN  IF ~truthy(matched_region)
        THEN json_response(404, [error |-> <<"Region", region, "not found">>,
                                 available_regions |-> available_regions])
        ELSE html_response([data_source |-> "Static Fallback Data",
                            region |-> matched_region,
                            risk |-> dict_get(FLOOD_RISK_DATA, matched_region, "moderate"),
                            routes |-> routes])

\* A faulty handler without the inner try: a failure of the provider or of
\* the renderer reaches the outer  except Exception .
map_dynamic_error_propagates(region) == map_page_exception("dynamic map generation failed")

\* The inner  except Exception  of map_page: print, then go on to the static map.
map_on_dynamic_error(region) == map_static(region)

\* f"temp_evacuation_map_{matched_region.replace(' ', '_')}.html"
map_file_name(matched_region) ==
    <<"t","e","m","p","_","e","v","a","c","u","a","t","i","o","n","_","m","a","p","_">>
        \o replace_space(matched_region) \o <<".","h","t","m","l">>

\* What build_and_save_map(matched_region, routes_data, map_file) writes
rendered(matched_region, routes_data) == [region |-> matched_region, routes |-> routes_data]
NoContent == rendered(<<>>, <<>>)

\* The document read back from the file, with the banner put after <body>
map_dynamic(html_content) ==
    html_response([data_source |-> "Dynamic Data from llload.py",
                   region |-> html_content.region,
                   risk |-> "",
                   routes |-> html_content.routes])

--------------------------------------------------------------------------
\* Inputs.

\* The substrings of s of 1..n characters
Substrings(s, n) ==
    { SubSeq(s, p[1], p[1] + p[2] - 1) :
        p \in { p \in (1..Len(s)) \X (1..n) : p[1] + p[2] - 1 <= Len(s) } }

CatalogNames == { MUMBAI_REGIONS[i] : i \in 1..Len(MUMBAI_REGIONS) }

\* Non-empty free-text queries: the catalog names as written and lower-cased,
\* their short substrings, and queries chosen for the matcher's cases (upper
\* case, mixed case, a name inside a longer text, two names in one text,
\* no match).
Queries ==
    CatalogNames
    \cup { lower(r) : r \in CatalogNames }
    \cup UNION { Substrings(lower(r), MaxQueryLen) : r \in CatalogNames }
    \cup { <<"a","n","d","h","e","r","i">>,
           <<"A","N","D","H","E","R","I">>,
           <<"a","n","D","H","e","r","i"," ","w">>,
           <<"b","a","n","d","r","a">>,
           <<"T","h","a","n","e"," ","S","t","a","t","i","o","n">>,
           <<"K","h","a","r","g","h","a","r"," ","F","o","r","t"," ","R","o","a","d">>,
           <<"N","o","n","e","x","i","s","t","e","n","t"," ","P","l","a","c","e">>,
           <<"x","y","z">>,
           <<"Q">> }

\* route_count, when the body carries it
RouteCounts == 1..MaxRouteCount

\* The bodies of POST /predict_flood: no usable JSON, null, {}, {"ward_name": ""}
\* and {"ward_name": q}
PredictBodies ==
    { JsonUnparsable, JsonNull, JsonObject({}, <<>>, <<>>, 0) }
    \cup { JsonObject({"ward_name"}, q, <<>>, 0) : q \in Queries \cup {<<>>} }

\* The bodies of POST /routes: no usable JSON, null, {}, {"route_count": k},
\* {"region": q} and {"region": q, "route_count": k}, q possibly ""
RoutesBodies ==
    { JsonUnparsable, JsonNull, JsonObject({}, <<>>, <<>>, 0) }
    \cup { JsonObject({"route_count"}, <<>>, <<>>, k) : k \in RouteCounts }
    \cup { JsonObject({"region"}, <<>>, q, 0) : q \in Queries \cup {<<>>} }
    \cup { JsonObject({"region", "route_count"}, <<>>, q, k) :
                q \in Queries \cup {<<>>}, k \in RouteCounts }

\* The i-th route llload returns: dest_region, distance_km (tenths), eta_min
\* (hundredths)
dyn_route(i) ==
    [dest_region |-> MUMBAI_REGIONS[Len(MUMBAI_REGIONS) + 1 - i],
     distance_km |-> 50 + 37 * i,
     eta_min |-> 1203 + 810 * i]
dyn_routes(n) == [i \in 1..n |-> dyn_route(i)]

Vikhroli == <<"V","i","k","h","r","o","l","i">>

\* What get_k_nearest_low_risk_routes(region, G, flood_df, k) may do: raise,
\* match nothing, or match a region (its own matching: any region, in the
\* catalog or not) with 0..k routes.
DynOutcomes(k) ==
    { DynRaise, DynReturn(None, 0, <<>>) }
    \cup { DynReturn(m[1], m[2], dyn_routes(n)) :
             m \in { <<Thane, 100>>, <<Vikhroli, 72>> },
             n \in 0..(IF k < MaxDynRoutes THEN k ELSE MaxDynRoutes) }

\* The paths asked of the fallback app
Paths == {"/", "/regions", "/health", "/predict_flood", "/routes", "/map"}

--------------------------------------------------------------------------
\* State.

NoResponse == [status |-> 0, type |-> "", body |-> [none |-> TRUE]]

Idle ==
    [pc |-> "idle", endpoint |-> "", body |-> JsonNull, region |-> <<>>,
     dyn |-> DynNotCalled, map_file |-> <<>>, render |-> "",
     html_content |-> NoContent, resp |-> NoResponse]

\* A thread takes its next request when it handles none.
free(t) == phase = "serving" /\ req[t].pc = "idle"

\* The request of thread t is answered.
answer(t, endpoint, body, region, dyn, resp) ==
    req' = [req EXCEPT ![t] =
                [Idle EXCEPT !.pc = "done", !.endpoint = endpoint, !.body = body,
                             !.region = region, !.dyn = dyn, !.resp = resp]]

\* The state after the environment is read and before server.py's imports run.
Init ==
    /\ entry \in {"server.py", "api/index.py"}
    /\ ENABLE_LLLOAD \in BOOLEAN
    /\ LLLOAD_AVAILABLE = FALSE
    /\ llload_import = "pending"
    /\ phase = "boot"
    /\ fs = <<>>
    /\ req = [t \in {1} |-> Idle]

\* server.py:16-33 and api/index.py:5-17.  With the toggle on, the import
\* of llload succeeds, raises ImportError, or raises something else (llload
\* builds G and reads flood_df at import).  Only ImportError is handled;
\* anything else leaves server.py, where api/index.py swaps in its one-route
\* fallback app and a plain  python server.py  dies.
import_outcomes == IF ENABLE_LLLOAD THEN {"ok", "ImportError", "OtherError"} ELSE {"not_attempted"}
handles_import_error(outcome) == outcome = "ImportError"

load_server(outcome) ==
    /\ phase = "boot"
    /\ outcome \in import_outcomes
    /\ llload_import' = outcome
    /\ LLLOAD_AVAILABLE' = (outcome = "ok")
    /\ phase' = IF outcome \in {"not_attempted", "ok"} \/ handles_import_error(outcome)
                THEN "serving"
                ELSE IF entry = "api/index.py" THEN "fallback_app" ELSE "crashed"
    /\ UNCHANGED <<entry, ENABLE_LLLOAD, fs, req>>

\* The response has been sent: the handler's locals are gone and the thread
\* is free for the next request.
respond(t) ==
    /\ req[t].pc = "done"
    /\ req' = [req EXCEPT ![t] = Idle]
    /\ UNCHANGED <<entry, ENABLE_LLLOAD, LLLOAD_AVAILABLE, llload_import, phase, fs>>

\* api/index.py:10-17: the fallback app has the route "/" alone.
fallback_app_request(t, paths) ==
    /\ phase = "fallback_app"
    /\ req[t].pc = "idle"
    /\ \E path \in paths : req' = [req EXCEPT ![t] =
                [Idle EXCEPT !.pc = "done", !.endpoint = path,
                    !.resp = IF path = "/"
                             THEN json_response(500, [error |-> "Backend failed to import server.py"])
                             ELSE json_response(404, [error |-> "Not Found"])]]
    /\ UNCHANGED <<entry, ENABLE_LLLOAD, LLLOAD_AVAILABLE, llload_import, phase, fs>>

\* GET /regions
regions(t) ==
    /\ free(t)
    /\ answer(t, "/regions", JsonNull, <<>>, DynNotCalled,
              json_response(200, [regions |-> MUMBAI_REGIONS, count |-> Len(MUMBAI_REGIONS)]))
    /\ UNCHANGED <<entry, ENABLE_LLLOAD, LLLOAD_AVAILABLE, llload_import, phase, fs>>

\* GET /health
health(t) ==
    /\ free(t)
    /\ answer(t, "/health", JsonNull, <<>>, DynNotCalled,
              json_response(200, [status |-> "healthy",
                    regions_count |-> Len(MUMBAI_REGIONS),
                    llload_status |-> IF LLLOAD_AVAILABLE THEN "connected" ELSE "not_available",
                    data_source |-> IF LLLOAD_AVAILABLE THEN "Dynamic (llload.py)"
                                    ELSE "Static fallback"]))
    /\ UNCHANGED <<entry, ENABLE_LLLOAD, LLLOAD_AVAILABLE, llload_import, phase, fs>>

\* POST /predict_flood with one of the given bodies
predict_flood_request(t, bodies) ==
    /\ free(t)
    /\ \E body \in bodies :
            answer(t, "/predict_flood", body, <<>>, DynNotCalled, predict_flood(body))
    /\ UNCHANGED <<entry, ENABLE_LLLOAD, LLLOAD_AVAILABLE, llload_import, phase, fs>>

\* Whether the handler reaches its call of get_k_nearest_low_risk_routes
calls_provider(region) == LLLOAD_AVAILABLE /\ truthy(region)

\* POST /routes with one of the given bodies; dyn is what the provider does
\* when the handler calls it with k = route_count.
get_routes_request(t, bodies) ==
    /\ free(t)
    /\ \E body \in bodies :
         \E dyn \in IF body.kind = "object" /\ calls_provider(data_get(body, "region", <<>>))
                    THEN DynOutcomes(data_get(body, "route_count", DEFAULT_ROUTE_COUNT))
                    ELSE {DynNotCalled} :
            answer(t, "/routes", body, <<>>, dyn, get_routes(body, LLLOAD_AVAILABLE, dyn))
    /\ UNCHANGED <<entry, ENABLE_LLLOAD, LLLOAD_AVAILABLE, llload_import, phase, fs>>

\* GET /map?region=...  up to the call of build_and_save_map (region is ""
\* when the parameter is missing); dyn is what the provider does when called.
map_page(t, region, dyn) ==
    /\ free(t)
    /\ IF ~truthy(region)
       THEN answer(t, "/map", JsonNull, region, dyn,
                   json_response(400, [error |-> "Region parameter is required"]))
       ELSE IF dyn.kind = "raise"
       THEN answer(t, "/map", JsonNull, region, dyn, map_on_dynamic_error(region))
       ELSE IF LLLOAD_AVAILABLE /\ dynamic_usable(dyn)
       THEN req' = [req EXCEPT ![t] =
                [Idle EXCEPT !.pc = "build", !.endpoint = "/map", !.region = region,
                             !.dyn = dyn, !.map_file = map_file_name(dyn.matched_region)]]
       ELSE answer(t, "/map", JsonNull, region, dyn, map_static(region))
    /\ UNCHANGED <<entry, ENABLE_LLLOAD, LLLOAD_AVAILABLE, llload_import, phase, fs>>

\* GET /map for one of the given region parameters and provider outcomes
map_page_request(t, region_args, outcomes) ==
    /\ free(t)
    /\ \E region \in region_args :
         \E dyn \in IF calls_provider(region) THEN outcomes ELSE {DynNotCalled} :
            map_page(t, region, dyn)

\* build_and_save_map(...): it writes the file, raises, or returns having
\* written none.
map_build(t, outcome) ==
    /\ req[t].pc = "build"
    /\ outcome \in {"written", "raises", "no_file"}
    /\ IF outcome = "written"
       THEN /\ fs' = (req[t].map_file :> rendered(req[t].dyn.matched_region, req[t].dyn.routes_data)) @@ fs
            /\ req' = [req EXCEPT ![t].pc = "exists", ![t].render = outcome]
       ELSE IF outcome = "no_file"
       THEN /\ fs' = fs
            /\ req' = [req EXCEPT ![t].pc = "exists", ![t].render = outcome]
       ELSE /\ fs' = fs
            /\ req' = [req EXCEPT ![t].pc = "done", ![t].render = outcome,
                                  ![t].resp = map_on_dynamic_error(req[t].region)]
    /\ UNCHANGED <<entry, ENABLE_LLLOAD, LLLOAD_AVAILABLE, llload_import, phase>>

\* if os.path.exists(map_file): without the file control leaves the  if  and
\* the  try  and reaches the static map.
map_exists(t) ==
    /\ req[t].pc = "exists"
    /\ IF req[t].map_file \in DOMAIN fs
       THEN req' = [req EXCEPT ![t].pc = "open"]
       ELSE req' = [req EXCEPT ![t].pc = "done", ![t].resp = map_static(req[t].region)]
    /\ UNCHANGED <<entry, ENABLE_LLLOAD, LLLOAD_AVAILABLE, llload_import, phase, fs>>

\* with open(map_file) as f: html_content = f.read(); open raises
\* FileNotFoundError when the file is gone.
map_read(t) ==
    /\ req[t].pc = "open"
    /\ IF req[t].map_file \in DOMAIN fs
       THEN req' = [req EXCEPT ![t].pc = "remove", ![t].html_content = fs[req[t].map_file]]
       ELSE req' = [req EXCEPT ![t].pc = "done",
                               ![t].resp = map_on_dynamic_error(req[t].region)]
    /\ UNCHANGED <<entry, ENABLE_LLLOAD, LLLOAD_AVAILABLE, llload_import, phase, fs>>

\* os.remove(map_file) under  except: pass , then the dynamic document.
map_remove(t) ==
    /\ req[t].pc = "remove"
    /\ fs' = IF (DOMAIN fs) \ {req[t].map_file} = {} THEN <<>>
             ELSE [f \in (DOMAIN fs) \ {req[t].map_file} |-> fs[f]]
    /\ req' = [req EXCEPT ![t].pc = "done", ![t].resp = map_dynamic(req[t].html_content)]
    /\ UNCHANGED <<entry, ENABLE_LLLOAD, LLLOAD_AVAILABLE, llload_import, phase>>

--------------------------------------------------------------------------
\* One process, one request at a time.

Next ==
    \/ \E o \in {"not_attempted", "ok", "ImportError", "OtherError"} : load_server(o)
    \/ \E t \in DOMAIN req : regions(t)
    \/ \E t \in DOMAIN req : health(t)
    \/ \E t \in DOMAIN req : predict_flood_request(t, PredictBodies)
    \/ \E t \in DOMAIN req : get_routes_request(t, RoutesBodies)
    \/ \E t \in DOMAIN req : map_page_request(t, Queries \cup {<<>>}, DynOutcomes(MaxDynRoutes))
    \/ \E t \in DOMAIN req : \E o \in {"written", "raises", "no_file"} : map_build(t, o)
    \/ \E t \in DOMAIN req : map_exists(t)
    \/ \E t \in DOMAIN req : map_read(t)
    \/ \E t \in DOMAIN req : map_remove(t)
    \/ \E t \in DOMAIN req : fallback_app_request(t, Paths)
    \/ \E t \in DOMAIN req : respond(t)

Spec == Init /\ [][Next]_vars

--------------------------------------------------------------------------
\* The serving process with NumThreads worker threads handling /map requests
\* at once (Flask's development server is threaded).

ConcQueries == { lower(Thane), <<"x","y","z">> }
ConcDyn == { DynReturn(Vikhroli, 72, dyn_routes(1)) }

InitConc ==
    /\ entry = "server.py"
    /\ ENABLE_LLLOAD = TRUE
    /\ LLLOAD_AVAILABLE = TRUE
    /\ llload_import = "ok"
    /\ phase = "serving"
    /\ fs = <<>>
    /\ req = [t \in 1..NumThreads |-> Idle]

NextConc ==
    \/ \E t \in DOMAIN req : map_page_request(t, ConcQueries, ConcDyn)
    \/ \E t \in DOMAIN req : \E o \in {"written", "raises", "no_file"} : map_build(t, o)
    \/ \E t \in DOMAIN req : map_exists(t)
    \/ \E t \in DOMAIN req : map_read(t)
    \/ \E t \in DOMAIN req : map_remove(t)
    \/ \E t \in DOMAIN req : respond(t)

SpecConc == InitConc /\ [][NextConc]_vars

--------------------------------------------------------------------------
\* Vocabulary of the properties.

\* Thread t has answered a request of the endpoint.
Answered(t, endpoint) == req[t].pc = "done" /\ req[t].endpoint = endpoint

\* a occurs in b as a contiguous run of characters
OccursIn(a, b) == \E i \in 1..(Len(b) - Len(a) + 1) : SubSeq(b, i, i + Len(a) - 1) = a

\* The catalog positions whose name, lower-cased, contains the lower-cased
\* query or is contained in it
FitPositions(query) ==
    LET q == lower(query)
    IN  { i \in 1..Len(MUMBAI_REGIONS) :
            \/ OccursIn(q, lower(MUMBAI_REGIONS[i]))
            \/ OccursIn(lower(MUMBAI_REGIONS[i]), q) }

\* The first such entry in catalog order, None when there is none
FirstFit(query) ==
    LET fits == FitPositions(query)
    IN  IF fits = {} THEN None
        ELSE MUMBAI_REGIONS[CHOOSE i \in fits : \A j \in fits : i <= j]

\* The first 10 catalog entries, in catalog order
FirstTen ==
    << AndheriEast, AndheriWest, BandraEast, BandraWest, Colaba,
       Fort, Dadar, Worli, Powai, Borivali >>

\* The static route list of a region: its entry of the static route table,
\* or the generic safe-zone default
StaticList(region) ==
    IF region \in DOMAIN EVACUATION_ROUTES THEN EVACUATION_ROUTES[region] ELSE ROUTES_DEFAULT

\* routes is the first min(k, n) entries of list, in order
FirstOf(routes, list, k) ==
    /\ Len(routes) = IF k < Len(list) THEN k ELSE Len(list)
    /\ \A i \in 1..Len(routes) : routes[i] = list[i]

\* The region query and the route count of an answered /routes request whose
\* body is a JSON object
RegionOf(r) == IF "region" \in r.body.keys THEN r.body.region ELSE <<>>
CountOf(r) == IF "route_count" \in r.body.keys THEN r.body.route_count ELSE 3

\* An answered /routes request with a JSON object and a non-empty region
RoutesAsked(t) ==
    Answered(t, "/routes") /\ req[t].body.kind = "object" /\ RegionOf(req[t]) /= <<>>

\* The static answer of /routes to a query that fits a catalog region
StaticRoutesAnswer(r) ==
    /\ r.resp.status = 200
    /\ r.resp.body.success = TRUE
    /\ r.resp.body.matched_region = FirstFit(RegionOf(r))
    /\ r.resp.body.match_score = 85
    /\ FirstOf(r.resp.body.routes, StaticList(FirstFit(RegionOf(r))), CountOf(r))
    /\ r.resp.body.route_count = Len(r.resp.body.routes)
    /\ r.resp.body.data_source = "Static Data - Fallback"

\* The NotFound answer: 404, an error field, the first 10 catalog entries
NotFoundAnswer(resp) ==
    /\ resp.status = 404
    /\ "error" \in DOMAIN resp.body
    /\ resp.body.available_regions = FirstTen

\* The static document of /map for the region query
StaticMapAnswer(r) ==
    /\ r.resp.status = 200
    /\ r.resp.type = "text/html"
    /\ r.resp.body.data_source = "Static Fallback Data"
    /\ r.resp.body.region = FirstFit(r.region)

--------------------------------------------------------------------------
\* C1.  Route lookup falls back on provider failure: when the dynamic
\* provider is available and its call raises, POST /routes with a non-empty
\* region that fits a catalog region answers 200 with success true, the
\* region the static matcher derives from the query, match_score 85, the
\* first route_count routes of the static tables and a static data_source.
C1_FallbackOnProviderError ==
    \A t \in DOMAIN req :
        (RoutesAsked(t) /\ LLLOAD_AVAILABLE /\ req[t].dyn.kind = "raise"
            /\ FirstFit(RegionOf(req[t])) /= None)
        => StaticRoutesAnswer(req[t])

C1_Witness ==
    \E t \in DOMAIN req :
        /\ RoutesAsked(t) /\ LLLOAD_AVAILABLE /\ req[t].dyn.kind = "raise"
        /\ RegionOf(req[t]) = <<"A","N","D","H","E","R","I">>
        /\ req[t].resp.status = 200
        /\ req[t].resp.body.matched_region = AndheriEast
        /\ req[t].resp.body.data_source = "Static Data - Fallback"

\* The provider returned a matched region and no routes.
EmptySuccess(dyn) ==
    dyn.kind = "return" /\ dyn.matched_region /= None /\ dyn.matched_region /= <<>>
        /\ Len(dyn.routes_data) = 0

--------------------------------------------------------------------------
\* An answered /predict_flood request with a JSON object and a non-empty ward
WardAsked(t) ==
    /\ Answered(t, "/predict_flood") /\ req[t].body.kind = "object"
    /\ "ward_name" \in req[t].body.keys /\ req[t].body.ward_name /= <<>>

\* An answered /map request with a non-empty region
MapAsked(t) == Answered(t, "/map") /\ req[t].region /= <<>>

\* The request took the static path of its handler: the provider was not
\* called, raised, or returned no region or no routes.
StaticPath(r) == ~dynamic_usable(r.dyn)

\* C3.  Region matching is first-match in catalog order: risk lookup, the
\* static path of route lookup and the static path of map rendering resolve
\* a query to the first catalog entry whose lower-cased name contains the
\* lower-cased query or is contained in it; when no entry fits, the result
\* is absent (the 404 answer) and no error is raised.
C3_FirstMatchInCatalogOrder ==
    \A t \in DOMAIN req :
        /\ WardAsked(t) =>
              IF FirstFit(req[t].body.ward_name) = None
              THEN req[t].resp.status = 404
              ELSE req[t].resp.status = 200
                    /\ req[t].resp.body.ward = FirstFit(req[t].body.ward_name)
        /\ (RoutesAsked(t) /\ StaticPath(req[t])) =>
              IF FirstFit(RegionOf(req[t])) = None
              THEN req[t].resp.status = 404 /\ req[t].resp.body.matched_region = None
              ELSE req[t].resp.status = 200
                    /\ req[t].resp.body.matched_region = FirstFit(RegionOf(req[t]))
        /\ (MapAsked(t) /\ StaticPath(req[t])) =>
              IF FirstFit(req[t].region) = None
              THEN req[t].resp.status = 404
              ELSE StaticMapAnswer(req[t])

\* "andheri" fits Andheri East and Andheri West and resolves to the earlier;
\* a text holding Khar and Fort resolves to Fort, the earlier in the catalog.
C3_Witness ==
    \E t \in DOMAIN req :
        /\ WardAsked(t)
        /\ req[t].body.ward_name = <<"a","n","d","h","e","r","i">>
        /\ Cardinality(FitPositions(req[t].body.ward_name)) = 2
        /\ req[t].resp.status = 200
        /\ req[t].resp.body.ward = AndheriEast

\* C4.  Static route truncation: on its static path, for a matched region
\* and a positive count, route lookup returns the first min(count, n)
\* entries, in table order, of the region's route list (its entry of the
\* static route table, or the 3-item safe-zone default), never padded, and
\* route_count is the number of routes returned.
C4_StaticTruncation ==
    \A t \in DOMAIN req :
        (RoutesAsked(t) /\ StaticPath(req[t]) /\ req[t].resp.status = 200)
        => LET routes == req[t].resp.body.routes
               list == StaticList(req[t].resp.body.matched_region)
           IN  /\ CountOf(req[t]) > 0
               /\ FirstOf(routes, list, CountOf(req[t]))
               /\ Len(routes) <= Len(list)
               /\ req[t].resp.body.route_count = Len(routes)

\* A count above the 3 routes of a region without a table entry
C4_Witness ==
    \E t \in DOMAIN req :
        /\ RoutesAsked(t) /\ StaticPath(req[t]) /\ req[t].resp.status = 200
        /\ CountOf(req[t]) > 3
        /\ req[t].resp.body.matched_region = Dadar
        /\ req[t].resp.body.routes = ROUTES_DEFAULT
        /\ req[t].resp.body.route_count = 3

\* C5.  NotFound: risk lookup, and route lookup when no provider resolves a
\* region, answer a non-empty query that fits no catalog region with 404, an
\* error field and available_regions equal to the first 10 catalog entries
\* in catalog order, and with no risk level and no routes.
C5_NotFound ==
    \A t \in DOMAIN req :
        /\ (WardAsked(t) /\ FitPositions(req[t].body.ward_name) = {}) =>
              /\ NotFoundAnswer(req[t].resp)
              /\ "risk_level" \notin DOMAIN req[t].resp.body
        /\ (RoutesAsked(t) /\ FitPositions(RegionOf(req[t])) = {}
                /\ ~(req[t].dyn.kind = "return" /\ req[t].dyn.matched_region /= None)) =>
              /\ NotFoundAnswer(req[t].resp)
              /\ "routes" \notin DOMAIN req[t].resp.body

C5_Witness ==
    \E t \in DOMAIN req :
        /\ RoutesAsked(t)
        /\ RegionOf(req[t]) = <<"N","o","n","e","x","i","s","t","e","n","t"," ","P","l","a","c","e">>
        /\ req[t].dyn.kind = "return" /\ req[t].dyn.matched_region = None
        /\ req[t].resp.status = 404
        /\ Len(req[t].resp.body.available_regions) = 10

\* The required field of the request is missing or empty.
RequiredFieldMissing(r) ==
    \/ /\ r.endpoint = "/predict_flood"
       /\ (r.body.kind /= "object" \/ "ward_name" \notin r.body.keys \/ r.body.ward_name = <<>>)
    \/ /\ r.endpoint = "/routes"
       /\ (r.body.kind /= "object" \/ "region" \notin r.body.keys \/ r.body.region = <<>>)
    \/ /\ r.endpoint = "/map"
       /\ r.region = <<>>

\* C6.  Input validation: a request to /predict_flood, /routes or /map
\* whose required field is missing or empty, a request carrying no field at
\* all included, is answered with 400 and an error field, and no provider
\* call is made.
C6_MissingFieldIs400 ==
    \A t \in DOMAIN req :
        (req[t].pc = "done" /\ RequiredFieldMissing(req[t]))
        => /\ req[t].resp.status = 400
           /\ "error" \in DOMAIN req[t].resp.body
           /\ req[t].dyn.kind = "not_called"

\* The renderer was called and failed: it raised or left no file.
RenderFailed(r) == r.render \in {"raises", "no_file"}

\* C7 as stated.  In map rendering, when the provider has resolved a region
\* with routes and the renderer then fails, the answer is HTTP 500 with a
\* JSON error body.
C7_RenderFailureIs500 ==
    \A t \in DOMAIN req :
        (MapAsked(t) /\ dynamic_usable(req[t].dyn) /\ RenderFailed(req[t]))
        => req[t].resp.status = 500 /\ "error" \in DOMAIN req[t].resp.body

\* C7 as amended.  In map rendering, when the provider has resolved a region
\* with routes and the renderer then fails, the request is never answered
\* with HTTP 500.  If the renderer raises, the exception is caught and the
\* request is answered from the static path: 200 with the static HTML
\* document of the region the static matcher derives from the query, or the
\* 404 NotFound answer when the query fits no catalog region.  If the
\* renderer returns without producing its file, the answer is the same
\* static one, unless a file of that name is present (written by a
\* concurrent request for the same region): that file is then served as the
\* dynamic document.
C7_RenderFailureFallsBack ==
    \A t \in DOMAIN req :
        (MapAsked(t) /\ dynamic_usable(req[t].dyn) /\ RenderFailed(req[t]))
        => \/ IF FirstFit(req[t].region) /= None
              THEN StaticMapAnswer(req[t])
              ELSE NotFoundAnswer(req[t].resp)
           \/ /\ req[t].render = "no_file"
              /\ req[t].resp.status = 200
              /\ req[t].resp.body.data_source = "Dynamic Data from llload.py"
              /\ map_file_name(req[t].resp.body.region) = req[t].map_file

\* The renderer raised for a query the static matcher resolves to another
\* region than the provider did.
C7_Witness ==
    \E t \in DOMAIN req :
        /\ MapAsked(t) /\ dynamic_usable(req[t].dyn) /\ req[t].render = "raises"
        /\ req[t].dyn.matched_region = Vikhroli
        /\ req[t].resp.status = 200
        /\ req[t].resp.body.data_source = "Static Fallback Data"
        /\ req[t].resp.body.region = Thane

\* What /routes answers to the region query of r with the default route
\* count, the provider doing what it did for r
RoutesFor(r) == get_routes(JsonObject({"region"}, <<>>, r.region, 0), LLLOAD_AVAILABLE, r.dyn)

\* C8.  Map rendering resolves routes as route lookup does: the region and
\* the ordered route list /map embeds are those /routes returns for the
\* query with the default route count, also for a matched region without an
\* entry in the static route table.
C8_MapSameAsRoutes ==
    \A t \in DOMAIN req :
        (MapAsked(t) /\ req[t].resp.status = 200)
        => /\ RoutesFor(req[t]).status = 200
           /\ RoutesFor(req[t]).body.matched_region = req[t].resp.body.region
           /\ RoutesFor(req[t]).body.routes =
                IF req[t].resp.body.data_source = "Static Fallback Data"
                THEN req[t].resp.body.routes
                ELSE api_routes(req[t].resp.body.routes)

\* C9.  Concurrent requests need no coordination: a /map request for which
\* the provider resolved a region with routes and the renderer wrote its
\* file returns the dynamically rendered document of that region and those
\* routes, as it does when it runs alone, whatever other requests run
\* beside it.
C9_MapDynamicAsAlone ==
    \A t \in DOMAIN req :
        (MapAsked(t) /\ dynamic_usable(req[t].dyn) /\ req[t].render = "written")
        => /\ req[t].resp.status = 200
           /\ req[t].resp.body.data_source = "Dynamic Data from llload.py"
           /\ req[t].resp.body.region = req[t].dyn.matched_region
           /\ req[t].resp.body.routes = req[t].dyn.routes_data

\* C10.  Startup degradation: with the toggle on, whatever way the import of
\* the routing collaborator fails, the service starts with the provider
\* marked unavailable and serves its endpoints from the static tables; a
\* request calls the provider only with the toggle on and the import done.
C10_StartupDegrades ==
    /\ (ENABLE_LLLOAD /\ llload_import \in {"ImportError", "OtherError"})
            => (phase = "serving" /\ ~LLLOAD_AVAILABLE)
    /\ \A t \in DOMAIN req :
            (req[t].pc = "done" /\ req[t].endpoint \in {"/regions", "/predict_flood", "/routes", "/map"})
            => /\ req[t].resp.status /= 404 \/ "available_regions" \in DOMAIN req[t].resp.body
               /\ req[t].dyn.kind /= "not_called" => (ENABLE_LLLOAD /\ llload_import = "ok")

==========================================================================
